---- MODULE Spec2Model ----

(***************************************************************************)
(* Model of the static-dependency decision engine of lang-graph:           *)
(*   slicer.py  - call-graph parsing, reachability, analyze_target         *)
(*   app.py     - _remove_function_from_c_source (candidate discovery and  *)
(*                brace-matching scan)                                     *)
(*                                                                         *)
(* Texts are sequences.  A call-graph text is a sequence of lines, a line  *)
(* being the record of the lexical features the regular expressions        *)
(* NODE_RX, CALL_RX and USES_RX distinguish.  A C source text is a         *)
(* sequence of one-character strings.  Python indices are kept 0-based;    *)
(* text[i] of the code is At(text, i) here.                                *)
(***************************************************************************)
EXTENDS Integers, Sequences, FiniteSets, TLC

VARIABLES
    pc,                 \* the stage / statement the program is at
    cg_text,            \* State.cg_text: the call-graph dump
    c_text,             \* State.c_text, as seen by check_function_pointer_usage
    target,             \* State.target
    callers_map,        \* State.callers_map  (callee -> set of callers)
    callees_map,        \* State.callees_map  (caller -> set of callees)
    max_depth,          \* argument max_depth of get_transitive_callees
    seen,               \* local `seen` of the running traversal
    work,               \* local `work` of the running traversal
    callers_transitive, \* result of get_transitive_callers
    callees_transitive, \* result of get_transitive_callees
    result,             \* what analyze_target returned (or NoResult)
    prev_result,        \* what the previous invocation returned (or NoResult)
    pointer_usage,      \* what check_function_pointer_usage returned
    metadata,           \* what parse_function_metadata returned
    frags,              \* the pieces the C source text tried is made of
    src_text,           \* argument src_text of _remove_function_from_c_source
    prev_ret,           \* what the previous call on the same src_text returned
    text,               \* local `text` of _remove_function_from_c_source
    sig_start,          \* local `sig_start`
    brace_idx,          \* local `brace_idx`
    i,                  \* local `i` of the brace-matching scan
    depth,              \* local `depth`
    in_string,          \* local `in_string`
    in_char,            \* local `in_char`
    in_sl_comment,      \* local `in_sl_comment`
    in_ml_comment,      \* local `in_ml_comment`
    escape_next,        \* local `escape_next`
    ret,                \* what _remove_function_from_c_source returned
    llm_decision,       \* State.llm_decision
    state_keys,         \* the keys the stages have written into State
    stages_run,         \* the stages the compiled graph has run, in order
    session_state,      \* st.session_state of the UI
    widgets             \* the values of the UI's widgets

graphVars == <<cg_text, callers_map, callees_map>>
reachVars == <<max_depth, seen, work, callers_transitive, callees_transitive>>
analyzeVars == <<c_text, result, prev_result, pointer_usage, metadata>>
scanVars == <<frags, src_text, prev_ret, text, sig_start, brace_idx, i, depth, in_string, in_char,
              in_sl_comment, in_ml_comment, escape_next, ret>>
pipeVars == <<llm_decision, state_keys, stages_run>>
uiVars == <<session_state, widgets>>
vars == <<pc, target, graphVars, reachVars, analyzeVars, scanVars, pipeVars, uiVars>>

(***************************************************************************)
(* Bounds of the model.                                                    *)
(***************************************************************************)
MaxLines == 3        \* lines of a call-graph text (parsing)
MaxLinesA == 2       \* lines of a call-graph text (analysis pipeline)
MaxEdges == 4        \* edges of a call graph (reachability)
MaxDepthArg == 2     \* largest max_depth argument tried
MaxTail == 4         \* characters after the opening brace
MaxFrags == 3        \* pieces of a C source text (removal)
MaxLinesM == 2       \* lines of a call-graph text (metadata extractor)
MaxOcc == 6          \* occurrences of one shape in a C text (pointer scan)

Names == {"a", "b", "c"}
NamesA == {"a", "b"}

(***************************************************************************)
(* Generic helpers: Python sets, lists, dicts and sorted().                *)
(***************************************************************************)
\* code-point order of the names used (upper case sorts before lower case)
NameOrder == <<"A", "a", "b", "c", "f", "g">>

Rank(n) == CHOOSE k \in 1..Len(NameOrder) : NameOrder[k] = n

MinName(S) == CHOOSE x \in S : \A y \in S : Rank(x) <= Rank(y)

RECURSIVE Sorted(_)
Sorted(S) == IF S = {} THEN <<>>
             ELSE LET m == MinName(S) IN <<m>> \o Sorted(S \ {m})

\* every order in which a Python set may be enumerated
Perms(S) == {p \in [1..Cardinality(S) -> S] : \A x \in S : \E k \in DOMAIN p : p[k] = x}

Range(s) == {s[k] : k \in DOMAIN s}

Front(s) == SubSeq(s, 1, Len(s) - 1)

Last(s) == s[Len(s)]

\* dict.get(k, set())
Get(m, k) == IF k \in DOMAIN m THEN m[k] ELSE {}

\* d.setdefault(k, set()).add(v)
DictAdd(m, k, v) == [x \in DOMAIN m \cup {k} |-> IF x = k THEN Get(m, k) \cup {v} ELSE m[x]]

\* d.setdefault(k, set())
DictTouch(m, k) == [x \in DOMAIN m \cup {k} |-> Get(m, x)]

EmptyDict == [x \in {} |-> {}]

SeqsUpTo(S, n) == UNION {[1..k -> S] : k \in 0..n}

NoResult == [kind |-> "none"]

(***************************************************************************)
(* Call-graph text.  A line is [form, name, uses]:                         *)
(*   form "node"          Call graph node for function: '<name>' ...       *)
(*        "node_indented" the same after leading white space               *)
(*        "node_lower"    the same in lower case                           *)
(*        "call"            calls function '<name>'                        *)
(*        "call_cs"         CS<...> calls function '<name>'                *)
(*        "call_upper"      CALLS FUNCTION '<name>'                        *)
(*        "other"         anything else                                    *)
(*   uses: <<>> when the line carries no #uses=<digits>, else <<N>>.       *)
(***************************************************************************)
Line(f, n, u) == [form |-> f, name |-> n, uses |-> u]

OtherLine == Line("other", "", <<>>)

\* NODE_RX.match(line): anchored at the line start, case-sensitive
NODE_RX_match(line) == line.form = "node"

\* CALL_RX.match(line): leading white space and a CS<...> tag allowed, IGNORECASE
CALL_RX_match(line) == line.form \in {"call", "call_cs", "call_upper"}

\* `current` is None before the first header; names are never empty ([^']+)
None == ""

\* an iteration that forgets the current node on a line it skips
CallersLineLosesCurrent(st, line) ==
    IF NODE_RX_match(line)
    THEN [current |-> line.name, map |-> st.map]
    ELSE IF st.current # None /\ CALL_RX_match(line)
         THEN [current |-> st.current, map |-> DictAdd(st.map, line.name, st.current)]
         ELSE [current |-> None, map |-> st.map]

\* one iteration of the loop of parse_callgraph_text; st = [current, map]
CallersLine(st, line) ==
    IF NODE_RX_match(line)
    THEN [current |-> line.name, map |-> st.map]
    ELSE IF st.current # None /\ CALL_RX_match(line)
         THEN [current |-> st.current, map |-> DictAdd(st.map, line.name, st.current)]
         ELSE st

\* a parse_callees_map whose call-line match forgot re.IGNORECASE
CalleesLineCaseSensitive(st, line) ==
    IF NODE_RX_match(line)
    THEN [current |-> line.name, map |-> DictTouch(st.map, line.name)]
    ELSE IF st.current # None /\ line.form \in {"call", "call_cs"}
         THEN [current |-> st.current, map |-> DictAdd(st.map, st.current, line.name)]
         ELSE st

\* one iteration of the loop of parse_callees_map
CalleesLine(st, line) ==
    IF NODE_RX_match(line)
    THEN [current |-> line.name, map |-> DictTouch(st.map, line.name)]
    ELSE IF st.current # None /\ CALL_RX_match(line)
         THEN [current |-> st.current, map |-> DictAdd(st.map, st.current, line.name)]
         ELSE st

RECURSIVE CallersLoop(_, _, _)
CallersLoop(lines, k, st) ==
    IF k > Len(lines) THEN st ELSE CallersLoop(lines, k + 1, CallersLine(st, lines[k]))

RECURSIVE CalleesLoop(_, _, _)
CalleesLoop(lines, k, st) ==
    IF k > Len(lines) THEN st ELSE CalleesLoop(lines, k + 1, CalleesLine(st, lines[k]))

parse_callgraph_text(lines) == CallersLoop(lines, 1, [current |-> None, map |-> EmptyDict]).map

parse_callees_map(lines) == CalleesLoop(lines, 1, [current |-> None, map |-> EmptyDict]).map

\* case folding of re.IGNORECASE on the names used
Fold(n) == IF n = "A" THEN "a" ELSE n

\* the lines on which the pattern of parse_function_metadata matches: it is
\* unanchored and IGNORECASE, so any header form, with the name compared
\* case-insensitively
MetaMatches(lines, t) ==
    {k \in DOMAIN lines : /\ lines[k].form \in {"node", "node_indented", "node_lower"}
                          /\ Fold(lines[k].name) = Fold(t)}

\* parse_function_metadata(text, target).uses_count
parse_function_metadata(lines, t) ==
    LET ms == MetaMatches(lines, t) IN
    IF ms = {} THEN 0
    ELSE LET k == CHOOSE x \in ms : \A y \in ms : x <= y
         IN IF lines[k].uses = <<>> THEN 0 ELSE lines[k].uses[1]

(***************************************************************************)
(* Reachability: get_transitive_callers and get_transitive_callees.        *)
(* A traversal state is [seen, work]; work.pop() takes the last element.   *)
(* A Python set is enumerated in an order the program does not control:    *)
(* `ord` is that order, one of Perms(set).                                 *)
(***************************************************************************)
KeepUnseen(ord, s) == SelectSeq(ord, LAMBDA x : x \notin s)

\* a traversal that starts from nothing instead of the direct callers
CallersStartEmpty(ord) == [seen |-> {}, work |-> <<>>]

\* seen = set(); work = list(callers_map.get(target, set()))
CallersStart(ord) == [seen |-> {}, work |-> ord]

\* one iteration of `while work:` in get_transitive_callers
CallersIter(st, ord) ==
    LET who == Last(st.work)
        rest == Front(st.work)
    IN IF who \in st.seen
       THEN [seen |-> st.seen, work |-> rest]
       ELSE [seen |-> st.seen \cup {who},
             work |-> rest \o KeepUnseen(ord, st.seen \cup {who})]

\* work = [(callee, 1) for callee in callees_map.get(target, set())]
CalleesStart(ord) == [seen |-> {}, work |-> [k \in DOMAIN ord |-> <<ord[k], 1>>]]

\* the depth test off by one
TooDeepOffByOne(d, md) == d > md + 1

\* the test `depth > max_depth` of get_transitive_callees
TooDeep(d, md) == d > md

\* the same iteration without the test `who in seen`
CalleesIterNoSeenGuard(st, ord, md) ==
    LET who == Last(st.work)[1]
        d == Last(st.work)[2]
        rest == Front(st.work)
    IN IF TooDeep(d, md)
       THEN [seen |-> st.seen, work |-> rest]
       ELSE LET push == KeepUnseen(ord, st.seen \cup {who})
            IN [seen |-> st.seen \cup {who},
                work |-> rest \o [k \in DOMAIN push |-> <<push[k], d + 1>>]]

\* one iteration of `while work:` in get_transitive_callees
CalleesIter(st, ord, md) ==
    LET who == Last(st.work)[1]
        d == Last(st.work)[2]
        rest == Front(st.work)
    IN IF who \in st.seen \/ TooDeep(d, md)
       THEN [seen |-> st.seen, work |-> rest]
       ELSE LET push == KeepUnseen(ord, st.seen \cup {who})
            IN [seen |-> st.seen \cup {who},
                work |-> rest \o [k \in DOMAIN push |-> <<push[k], d + 1>>]]

\* get_transitive_callers run to its end, sets enumerated in sorted order
RECURSIVE CallersRun(_, _)
CallersRun(cm, st) ==
    IF st.work = <<>> THEN Sorted(st.seen)
    ELSE CallersRun(cm, CallersIter(st, Sorted(Get(cm, Last(st.work)))))

get_transitive_callers(cm, t) == CallersRun(cm, CallersStart(Sorted(Get(cm, t))))

RECURSIVE CalleesRun(_, _, _)
CalleesRun(cm, st, md) ==
    IF st.work = <<>> THEN Sorted(st.seen)
    ELSE CalleesRun(cm, CalleesIter(st, Sorted(Get(cm, Last(st.work)[1])), md), md)

get_transitive_callees(cm, t, md) == CalleesRun(cm, CalleesStart(Sorted(Get(cm, t))), md)

\* default of the parameter max_depth
DefaultMaxDepth == 10

(***************************************************************************)
(* The maps of a call graph given as a set of edges <<caller, callee>>:    *)
(* what the two parsers build from a dump of that graph in which every     *)
(* caller has a header.                                                    *)
(***************************************************************************)
CallersOfEdges(E) ==
    [b \in {e[2] : e \in E} |-> {e[1] : e \in {x \in E : x[2] = b}}]

CalleesOfEdges(E) ==
    [a \in {e[1] : e \in E} |-> {e[2] : e \in {x \in E : x[1] = a}}]

Graphs == {E \in SUBSET (Names \X Names) : Cardinality(E) <= MaxEdges}
(***************************************************************************)
(* check_function_pointer_usage.  The C text is seen through the three     *)
(* patterns of the scan, so it is modelled by the number of occurrences    *)
(* of each shape they tell apart:                                          *)
(*   addr   `&f;`                  matches addr_pattern, and the `f` in    *)
(*                                 it matches bare_name_pattern            *)
(*   reg    `sqlite3_create_function(db, "n", 1, enc, 0, f, ...)`          *)
(*                                 matches FUNC_PTR_PATTERNS[0] with       *)
(*                                 group 1 = f; its `f,` is a bare match   *)
(*   bare   `p = f;`               matches bare_name_pattern only          *)
(* Calls `f(...)` match none of them.                                      *)
(***************************************************************************)
\* `if len(result["context_snippets"]) < 5`
SnippetCap == 5

\* `len(pointer_usage["suspicious_patterns"]) > 3`
SuspiciousLimit == 3

\* the C texts tried: the bare occurrences around the limit of warning 4
CTexts == [addr : 0..1, reg : 0..1, bare : {0, SuspiciousLimit, SuspiciousLimit + 1}]

Min(x, y) == IF x <= y THEN x ELSE y

Max(x, y) == IF x >= y THEN x ELSE y

Repeat(x, n) == [k \in 1..n |-> x]

check_function_pointer_usage(ct) ==
    LET nsusp == ct.addr + ct.reg + ct.bare
        nfirst == ct.addr + ct.reg
    IN [has_address_taken |-> ct.addr > 0,
        function_registration |-> Repeat("sqlite3_create_function", ct.reg),
        suspicious_patterns |-> nsusp,
        context_snippets |-> nfirst + Min(nsusp, Max(0, SnippetCap - nfirst))]

(***************************************************************************)
(* analyze_target.  Warnings are kept by their kind.                       *)
(***************************************************************************)
\* a base decision that ignores the callers
BaseDecisionAlwaysSafe(has_dependency) == "SAFE_TO_REMOVE"

\* a base decision that never clears a function
BaseDecisionNeverSafe(has_dependency) == "DEPENDENT"

\* decision = "SAFE_TO_REMOVE" if not has_dependency else "DEPENDENT"
BaseDecision(has_dependency) == IF ~has_dependency THEN "SAFE_TO_REMOVE" ELSE "DEPENDENT"

\* an override that forgot the address-of evidence
OverridesRegistrationOnly(pu) == pu.function_registration # <<>>

\* an override that also fires on the suspicious patterns
OverridesOnSuspicious(pu) ==
    \/ pu.function_registration # <<>>
    \/ pu.has_address_taken
    \/ pu.suspicious_patterns > SuspiciousLimit

\* `if pointer_usage["function_registration"] or pointer_usage["has_address_taken"]`
Overrides(pu) == pu.function_registration # <<>> \/ pu.has_address_taken

If(c, w) == IF c THEN <<w>> ELSE <<>>

EdgeCaseWarnings(has_dependency, uses_count, pu, n_callees) ==
    If(uses_count > 0 /\ ~has_dependency, "USES_BUT_NO_CALLERS")
    \o If(pu.has_address_taken, "ADDRESS_TAKEN")
    \o If(pu.function_registration # <<>>, "REGISTERED")
    \o If(pu.suspicious_patterns > 0 /\ pu.suspicious_patterns > SuspiciousLimit, "SUSPICIOUS")
    \o If(~has_dependency /\ n_callees > 0, "DEAD_CODE_INFO")
    \o If(Overrides(pu), "OVERRIDDEN")

\* the value analyze_target returns (evidence_snippet and messages left out:
\* they are text for the LLM prompt and read by none of the decisions)
analyze_target_value(lines, cm, em, ct, t) ==
    LET direct_callers == Sorted(Get(cm, t))
        transitive_callers == get_transitive_callers(cm, t)
        has_dependency == direct_callers # <<>> \/ transitive_callers # <<>>
        direct_callees == Sorted(Get(em, t))
        uses_count == parse_function_metadata(lines, t)
        pu == check_function_pointer_usage(ct)
    IN [kind |-> "analysis",
        target |-> t,
        callers |-> direct_callers,
        callers_transitive |-> transitive_callers,
        callees |-> direct_callees,
        callees_transitive |-> get_transitive_callees(em, t, DefaultMaxDepth),
        decision |-> IF Overrides(pu) THEN "DEPENDENT" ELSE BaseDecision(has_dependency),
        uses_count |-> uses_count,
        has_callers |-> has_dependency,
        pointer_usage |-> pu,
        edge_case_warnings |-> EdgeCaseWarnings(has_dependency, uses_count, pu, Len(direct_callees))]

(***************************************************************************)
(* Values of the variables a specification does not use.                   *)
(***************************************************************************)
GraphIdle ==
    /\ cg_text = <<>>
    /\ callers_map = EmptyDict
    /\ callees_map = EmptyDict

ReachIdle ==
    /\ max_depth = DefaultMaxDepth
    /\ seen = {}
    /\ work = <<>>
    /\ callers_transitive = <<>>
    /\ callees_transitive = <<>>

AnalyzeIdle ==
    /\ c_text = [addr |-> 0, reg |-> 0, bare |-> 0]
    /\ result = NoResult
    /\ prev_result = NoResult
    /\ pointer_usage = NoResult
    /\ metadata = NoResult

PipeIdle ==
    /\ llm_decision = None
    /\ state_keys = {}
    /\ stages_run = <<>>

UiIdle ==
    /\ session_state = EmptyDict
    /\ widgets = EmptyDict

ScanIdle ==
    /\ frags = <<>>
    /\ src_text = <<>>
    /\ prev_ret = NoResult
    /\ text = <<>>
    /\ sig_start = 0
    /\ brace_idx = 0
    /\ i = 0
    /\ depth = 0
    /\ in_string = FALSE
    /\ in_char = FALSE
    /\ in_sl_comment = FALSE
    /\ in_ml_comment = FALSE
    /\ escape_next = FALSE
    /\ ret = NoResult

(***************************************************************************)
(* The pipeline stages parse_graph and analyze_target.                     *)
(***************************************************************************)
parse_graph ==
    /\ pc = "parse_graph"
    /\ callers_map' = parse_callgraph_text(cg_text)
    /\ callees_map' = parse_callees_map(cg_text)
    /\ pc' = "analyze_target"
    /\ UNCHANGED <<cg_text, target, reachVars, analyzeVars, scanVars, pipeVars, uiVars>>

analyze_target ==
    /\ pc = "analyze_target"
    /\ result' = analyze_target_value(cg_text, callers_map, callees_map, c_text, target)
    /\ pc' = "done"
    /\ UNCHANGED <<c_text, prev_result, pointer_usage, metadata,
                   target, graphVars, reachVars, scanVars, pipeVars, uiVars>>

\* the pipeline is invoked again on the same call graph and target with
\* another C file; the previous result is kept for comparison
Invoke ==
    /\ pc = "done"
    /\ result # NoResult
    /\ \E ct \in CTexts : c_text' = ct
    /\ prev_result' = result
    /\ result' = NoResult
    /\ callers_map' = EmptyDict
    /\ callees_map' = EmptyDict
    /\ pc' = "parse_graph"
    /\ UNCHANGED <<cg_text, target, pointer_usage, metadata, reachVars, scanVars, pipeVars, uiVars>>

(***************************************************************************)
(* Specification of the parsers: any text of at most MaxLines lines.       *)
(***************************************************************************)
ParseLines ==
    {Line(f, n, <<>>) : f \in {"node", "node_indented", "node_lower",
                                "call", "call_cs", "call_upper"}, n \in Names}
    \cup {OtherLine}

InitParse ==
    /\ pc = "parse_graph"
    /\ cg_text \in SeqsUpTo(ParseLines, MaxLines)
    /\ target = None
    /\ callers_map = EmptyDict
    /\ callees_map = EmptyDict
    /\ ReachIdle
    /\ AnalyzeIdle
    /\ ScanIdle
    /\ PipeIdle
    /\ UiIdle

NextParse == parse_graph

SpecParse == InitParse /\ [][NextParse]_vars

(***************************************************************************)
(* Specification of the analysis pipeline: a text of at most MaxLinesA     *)
(* lines whose headers may carry a #uses hint, a target and a C text.      *)
(***************************************************************************)
AnalyzeLines ==
    {Line("node", n, u) : n \in NamesA, u \in {<<>>, <<0>>, <<2>>}}
    \cup {Line("call", n, <<>>) : n \in NamesA}

InitAnalyze ==
    /\ pc = "parse_graph"
    /\ cg_text \in SeqsUpTo(AnalyzeLines, MaxLinesA)
    /\ target \in NamesA
    /\ callers_map = EmptyDict
    /\ callees_map = EmptyDict
    /\ c_text \in CTexts
    /\ result = NoResult
    /\ prev_result = NoResult
    /\ pointer_usage = NoResult
    /\ metadata = NoResult
    /\ ReachIdle
    /\ ScanIdle
    /\ PipeIdle
    /\ UiIdle

NextAnalyze ==
    \/ parse_graph
    \/ analyze_target
    \/ Invoke

SpecAnalyze == InitAnalyze /\ [][NextAnalyze]_vars

(***************************************************************************)
(* Specification of the traversals: a graph of at most MaxEdges edges, a   *)
(* target and a depth bound; every enumeration order of the sets.          *)
(***************************************************************************)
StartCallers ==
    /\ pc = "get_transitive_callers"
    /\ \E ord \in Perms(Get(callers_map, target)) :
         LET st == CallersStart(ord) IN seen' = st.seen /\ work' = st.work
    /\ pc' = "callers_loop"
    /\ UNCHANGED <<max_depth, callers_transitive, callees_transitive,
                   target, graphVars, analyzeVars, scanVars, pipeVars, uiVars>>

StepCallers ==
    /\ pc = "callers_loop"
    /\ work # <<>>
    /\ \E ord \in Perms(Get(callers_map, Last(work))) :
         LET st == CallersIter([seen |-> seen, work |-> work], ord)
         IN seen' = st.seen /\ work' = st.work
    /\ UNCHANGED <<pc, max_depth, callers_transitive, callees_transitive,
                   target, graphVars, analyzeVars, scanVars, pipeVars, uiVars>>

ReturnCallers ==
    /\ pc = "callers_loop"
    /\ work = <<>>
    /\ callers_transitive' = Sorted(seen)
    /\ pc' = "get_transitive_callees"
    /\ UNCHANGED <<max_depth, seen, work, callees_transitive,
                   target, graphVars, analyzeVars, scanVars, pipeVars, uiVars>>

StartCallees ==
    /\ pc = "get_transitive_callees"
    /\ \E ord \in Perms(Get(callees_map, target)) :
         LET st == CalleesStart(ord) IN seen' = st.seen /\ work' = st.work
    /\ pc' = "callees_loop"
    /\ UNCHANGED <<max_depth, callers_transitive, callees_transitive,
                   target, graphVars, analyzeVars, scanVars, pipeVars, uiVars>>

StepCallees ==
    /\ pc = "callees_loop"
    /\ work # <<>>
    /\ \E ord \in Perms(Get(callees_map, Last(work)[1])) :
         LET st == CalleesIter([seen |-> seen, work |-> work], ord, max_depth)
         IN seen' = st.seen /\ work' = st.work
    /\ UNCHANGED <<pc, max_depth, callers_transitive, callees_transitive,
                   target, graphVars, analyzeVars, scanVars, pipeVars, uiVars>>

ReturnCallees ==
    /\ pc = "callees_loop"
    /\ work = <<>>
    /\ callees_transitive' = Sorted(seen)
    /\ pc' = "done"
    /\ UNCHANGED <<max_depth, seen, work, callers_transitive,
                   target, graphVars, analyzeVars, scanVars, pipeVars, uiVars>>

InitReach ==
    /\ pc = "get_transitive_callers"
    /\ cg_text = <<>>
    /\ \E E \in Graphs : callers_map = CallersOfEdges(E) /\ callees_map = CalleesOfEdges(E)
    /\ target \in Names
    /\ max_depth \in 1..MaxDepthArg
    /\ seen = {}
    /\ work = <<>>
    /\ callers_transitive = <<>>
    /\ callees_transitive = <<>>
    /\ AnalyzeIdle
    /\ ScanIdle
    /\ PipeIdle
    /\ UiIdle

NextReach ==
    \/ StartCallers
    \/ StepCallers
    \/ ReturnCallers
    \/ StartCallees
    \/ StepCallees
    \/ ReturnCallees

SpecReach == InitReach /\ [][NextReach]_vars

(***************************************************************************)
(* _remove_function_from_c_source: the brace-matching scan.                *)
(* The locals of the loop are the record                                   *)
(*   [i, depth, in_string, in_char, in_sl_comment, in_ml_comment,          *)
(*    escape_next];                                                        *)
(* each branch of the loop body is an operator from the locals (and the    *)
(* characters ch, next_ch) to the locals after the iteration.              *)
(***************************************************************************)
\* text[k], k counted from 0
At(t, k) == t[k + 1]

\* next_ch = text[i + 1] if i + 1 < n else ''
NextCh(t, k) == IF k + 1 < Len(t) THEN At(t, k + 1) ELSE ""

Locals == [i |-> i, depth |-> depth, in_string |-> in_string, in_char |-> in_char,
           in_sl_comment |-> in_sl_comment, in_ml_comment |-> in_ml_comment,
           escape_next |-> escape_next]

SetLocals(st) ==
    /\ i' = st.i
    /\ depth' = st.depth
    /\ in_string' = st.in_string
    /\ in_char' = st.in_char
    /\ in_sl_comment' = st.in_sl_comment
    /\ in_ml_comment' = st.in_ml_comment
    /\ escape_next' = st.escape_next

\* if escape_next: escape_next = False; i += 1; continue
EscapedStep(st) == [st EXCEPT !.escape_next = FALSE, !.i = st.i + 1]

\* a string branch that still counts the braces it reads
StringStepCountingBraces(st, ch) ==
    IF ch = "\\" THEN [st EXCEPT !.escape_next = TRUE, !.i = st.i + 1]
    ELSE IF ch = "\"" THEN [st EXCEPT !.in_string = FALSE, !.i = st.i + 1]
    ELSE IF ch = "{" THEN [st EXCEPT !.depth = st.depth + 1, !.i = st.i + 1]
    ELSE IF ch = "}" THEN [st EXCEPT !.depth = st.depth - 1, !.i = st.i + 1]
    ELSE [st EXCEPT !.i = st.i + 1]

\* if in_string: ...
StringStep(st, ch) ==
    IF ch = "\\" THEN [st EXCEPT !.escape_next = TRUE, !.i = st.i + 1]
    ELSE IF ch = "\"" THEN [st EXCEPT !.in_string = FALSE, !.i = st.i + 1]
    ELSE [st EXCEPT !.i = st.i + 1]

\* elif in_char: ...
CharStep(st, ch) ==
    IF ch = "\\" THEN [st EXCEPT !.escape_next = TRUE, !.i = st.i + 1]
    ELSE IF ch = "'" THEN [st EXCEPT !.in_char = FALSE, !.i = st.i + 1]
    ELSE [st EXCEPT !.i = st.i + 1]

\* elif in_sl_comment: ...
LineCommentStep(st, ch) ==
    IF ch = "\n" THEN [st EXCEPT !.in_sl_comment = FALSE, !.i = st.i + 1]
    ELSE [st EXCEPT !.i = st.i + 1]

\* a block-comment branch in which a double quote opens a string literal
BlockCommentStepOpensString(st, ch, next_ch) ==
    IF ch = "*" /\ next_ch = "/" THEN [st EXCEPT !.in_ml_comment = FALSE, !.i = st.i + 2]
    ELSE IF ch = "\"" THEN [st EXCEPT !.in_string = TRUE, !.i = st.i + 1]
    ELSE [st EXCEPT !.i = st.i + 1]

\* elif in_ml_comment: ...
BlockCommentStep(st, ch, next_ch) ==
    IF ch = "*" /\ next_ch = "/" THEN [st EXCEPT !.in_ml_comment = FALSE, !.i = st.i + 2]
    ELSE [st EXCEPT !.i = st.i + 1]

\* else: ...   (the locals when the branch does not return)
NormalStep(st, ch, next_ch) ==
    IF ch = "/" /\ next_ch = "/" THEN [st EXCEPT !.in_sl_comment = TRUE, !.i = st.i + 2]
    ELSE IF ch = "/" /\ next_ch = "*" THEN [st EXCEPT !.in_ml_comment = TRUE, !.i = st.i + 2]
    ELSE IF ch = "\"" THEN [st EXCEPT !.in_string = TRUE, !.i = st.i + 1]
    ELSE IF ch = "'" THEN [st EXCEPT !.in_char = TRUE, !.i = st.i + 1]
    ELSE IF ch = "{" THEN [st EXCEPT !.depth = st.depth + 1, !.i = st.i + 1]
    ELSE IF ch = "}" THEN [st EXCEPT !.depth = st.depth - 1, !.i = st.i + 1]
    ELSE [st EXCEPT !.i = st.i + 1]

\* the same return with the cut ending before the closing brace
RemovedValueBraceLeft(t, ss, k) ==
    LET cut_start == IF ss > 0 /\ At(t, ss - 1) = "\n" THEN ss - 1 ELSE ss
    IN [kind |-> "return",
        new_text |-> SubSeq(t, 1, cut_start) \o SubSeq(t, k + 1, Len(t)),
        removed |-> TRUE,
        reason |-> "Removed",
        count |-> k - cut_start]

\* the value returned at `if depth == 0:`; k is the index of the closing brace
RemovedValue(t, ss, k) ==
    LET body_end == k + 1
        cut_start == IF ss > 0 /\ At(t, ss - 1) = "\n" THEN ss - 1 ELSE ss
        cut_end == IF body_end < Len(t) /\ At(t, body_end) = "\n" THEN body_end + 1 ELSE body_end
    IN [kind |-> "return",
        new_text |-> SubSeq(t, 1, cut_start) \o SubSeq(t, cut_end + 1, Len(t)),
        removed |-> TRUE,
        reason |-> "Removed",
        count |-> cut_end - cut_start]

\* the same return without the depth the scan ended at
UnbalancedValueDepthLost(t, d) ==
    [kind |-> "return", new_text |-> t, removed |-> FALSE,
     reason |-> "Unbalanced braces", count |-> 0]

\* return src_text, False, f"Unbalanced braces for '{func}' (final depth={depth})."
UnbalancedValue(t, d) ==
    [kind |-> "return", new_text |-> t, removed |-> FALSE,
     reason |-> "Unbalanced braces", count |-> d]

Scanning == pc = "scan" /\ i < Len(text)

ScanFrame ==
    UNCHANGED <<frags, src_text, prev_ret, text, sig_start, brace_idx,
                target, graphVars, reachVars, analyzeVars, pipeVars, uiVars>>

ScanEscaped ==
    /\ Scanning
    /\ escape_next
    /\ SetLocals(EscapedStep(Locals))
    /\ UNCHANGED <<pc, ret>>
    /\ ScanFrame

ScanString ==
    /\ Scanning
    /\ ~escape_next /\ in_string
    /\ SetLocals(StringStep(Locals, At(text, i)))
    /\ UNCHANGED <<pc, ret>>
    /\ ScanFrame

ScanChar ==
    /\ Scanning
    /\ ~escape_next /\ ~in_string /\ in_char
    /\ SetLocals(CharStep(Locals, At(text, i)))
    /\ UNCHANGED <<pc, ret>>
    /\ ScanFrame

ScanLineComment ==
    /\ Scanning
    /\ ~escape_next /\ ~in_string /\ ~in_char /\ in_sl_comment
    /\ SetLocals(LineCommentStep(Locals, At(text, i)))
    /\ UNCHANGED <<pc, ret>>
    /\ ScanFrame

ScanBlockComment ==
    /\ Scanning
    /\ ~escape_next /\ ~in_string /\ ~in_char /\ ~in_sl_comment /\ in_ml_comment
    /\ SetLocals(BlockCommentStep(Locals, At(text, i), NextCh(text, i)))
    /\ UNCHANGED <<pc, ret>>
    /\ ScanFrame

ScanNormal ==
    /\ Scanning
    /\ ~escape_next /\ ~in_string /\ ~in_char /\ ~in_sl_comment /\ ~in_ml_comment
    /\ LET st == NormalStep(Locals, At(text, i), NextCh(text, i))
       IN IF st.depth # depth /\ At(text, i) = "}" /\ st.depth = 0
          THEN /\ SetLocals([st EXCEPT !.i = i])
               /\ ret' = RemovedValue(text, sig_start, i)
               /\ pc' = "done"
          ELSE /\ SetLocals(st)
               /\ UNCHANGED <<pc, ret>>
    /\ ScanFrame

ScanExhausted ==
    /\ pc = "scan"
    /\ i >= Len(text)
    /\ ret' = UnbalancedValue(src_text, depth)
    /\ pc' = "done"
    /\ UNCHANGED <<i, depth, in_string, in_char, in_sl_comment, in_ml_comment, escape_next>>
    /\ ScanFrame

(***************************************************************************)
(* Specification of the scan: the target is f, the text is the signature   *)
(* `f(){` followed by at most MaxTail characters; the candidate regex      *)
(* matches it at position 0, so sig_start = 0 and brace_idx = 3.           *)
(***************************************************************************)
Chars == {"{", "}", "\"", "'", "\\", "/", "*", "\n", "x"}

Signature == <<"f", "(", ")", "{">>

InitScan ==
    /\ pc = "scan"
    /\ target = "f"
    /\ frags = <<>>
    /\ \E tail \in SeqsUpTo(Chars, MaxTail) : text = Signature \o tail
    /\ src_text = text
    /\ prev_ret = NoResult
    /\ sig_start = 0
    /\ brace_idx = Len(Signature) - 1
    /\ i = brace_idx
    /\ depth = 0
    /\ in_string = FALSE
    /\ in_char = FALSE
    /\ in_sl_comment = FALSE
    /\ in_ml_comment = FALSE
    /\ escape_next = FALSE
    /\ ret = NoResult
    /\ GraphIdle
    /\ ReachIdle
    /\ AnalyzeIdle
    /\ PipeIdle
    /\ UiIdle

NextScan ==
    \/ ScanEscaped
    \/ ScanString
    \/ ScanChar
    \/ ScanLineComment
    \/ ScanBlockComment
    \/ ScanNormal
    \/ ScanExhausted

SpecScan == InitScan /\ [][NextScan]_vars

(***************************************************************************)
(* The compiled LangGraph pipeline.  The graph is the set of edges wired   *)
(* by graph.add_edge, its entry and its finish point; the runtime runs the *)
(* node pc names, merges what the node returns into State and moves to the *)
(* node's successor.  A stage that raises ends the invocation.             *)
(***************************************************************************)
\* a wiring in which analyze_target precedes parse_graph
GraphEdgesAnalyzeFirst ==
    {<<"load_files", "analyze_target">>, <<"analyze_target", "parse_graph">>,
     <<"parse_graph", "llm_decide">>}

\* graph.add_edge(...)
GraphEdges ==
    {<<"load_files", "parse_graph">>, <<"parse_graph", "analyze_target">>,
     <<"analyze_target", "llm_decide">>}

\* graph.set_entry_point("load_files")
EntryPoint == "load_files"

\* graph.set_finish_point("llm_decide")
FinishPoint == "llm_decide"

\* the node run after node n
NextNode(n) ==
    IF n = FinishPoint THEN "END"
    ELSE (CHOOSE e \in GraphEdges : e[1] = n)[2]

\* the keys of the dict passed to app.invoke
InputKeys == {"cg_path", "c_path", "target", "model", "messages"}

LlmDecisions == {"REMOVE", "DO_NOT_REMOVE"}

PipeFrame == UNCHANGED <<target, reachVars, scanVars, uiVars, prev_result, pointer_usage, metadata>>

\* load_files: reads the two files; open() raises when a path is wrong
RunLoadFiles ==
    /\ pc = "load_files"
    /\ stages_run' = Append(stages_run, "load_files")
    /\ \/ /\ cg_text' \in SeqsUpTo(AnalyzeLines, MaxLinesA)
          /\ c_text' \in CTexts
          /\ state_keys' = state_keys \cup {"cg_text", "c_text", "all_funcs"}
          /\ pc' = NextNode("load_files")
       \/ /\ pc' = "raised"
          /\ UNCHANGED <<cg_text, c_text, state_keys>>
    /\ UNCHANGED <<callers_map, callees_map, result, llm_decision>>
    /\ PipeFrame

\* parse_graph: state["cg_text"] raises KeyError when load_files has not run
RunParseGraph ==
    /\ pc = "parse_graph"
    /\ stages_run' = Append(stages_run, "parse_graph")
    /\ IF "cg_text" \in state_keys
       THEN /\ callers_map' = parse_callgraph_text(cg_text)
            /\ callees_map' = parse_callees_map(cg_text)
            /\ state_keys' = state_keys \cup {"callers_map", "callees_map"}
            /\ pc' = NextNode("parse_graph")
       ELSE /\ pc' = "raised"
            /\ UNCHANGED <<callers_map, callees_map, state_keys>>
    /\ UNCHANGED <<cg_text, c_text, result, llm_decision>>
    /\ PipeFrame

\* analyze_target: state["callers_map"], state["callees_map"], state["cg_text"]
\* and state["c_text"] raise KeyError when they are missing
RunAnalyzeTarget ==
    /\ pc = "analyze_target"
    /\ stages_run' = Append(stages_run, "analyze_target")
    /\ IF {"callers_map", "callees_map", "cg_text", "c_text"} \subseteq state_keys
       THEN /\ result' = analyze_target_value(cg_text, callers_map, callees_map, c_text, target)
            /\ state_keys' = state_keys \cup {"decision", "callers", "callees", "function_metadata",
                                              "pointer_usage", "edge_case_warnings"}
            /\ pc' = NextNode("analyze_target")
       ELSE /\ pc' = "raised"
            /\ UNCHANGED <<result, state_keys>>
    /\ UNCHANGED <<cg_text, c_text, callers_map, callees_map, llm_decision>>
    /\ PipeFrame

\* llm_decide: the answer of the model is either decision; the stage raises
\* when the SDK is missing or the request fails
RunLlmDecide ==
    /\ pc = "llm_decide"
    /\ stages_run' = Append(stages_run, "llm_decide")
    /\ \/ /\ llm_decision' \in LlmDecisions
          /\ state_keys' = state_keys \cup {"llm_decision", "llm_rationale"}
          /\ pc' = NextNode("llm_decide")
       \/ /\ pc' = "raised"
          /\ UNCHANGED <<llm_decision, state_keys>>
    /\ UNCHANGED <<cg_text, c_text, callers_map, callees_map, result>>
    /\ PipeFrame

InitPipeline ==
    /\ pc = EntryPoint
    /\ target \in NamesA
    /\ cg_text = <<>>
    /\ callers_map = EmptyDict
    /\ callees_map = EmptyDict
    /\ llm_decision = None
    /\ state_keys = InputKeys
    /\ stages_run = <<>>
    /\ AnalyzeIdle
    /\ ReachIdle
    /\ ScanIdle
    /\ UiIdle

NextPipeline ==
    \/ RunLoadFiles
    \/ RunParseGraph
    \/ RunAnalyzeTarget
    \/ RunLlmDecide

SpecPipeline == InitPipeline /\ [][NextPipeline]_vars

(***************************************************************************)
(* Specification of the pointer-usage scan alone: a C text with up to      *)
(* MaxOcc occurrences of each shape.                                       *)
(***************************************************************************)
PointerTexts == [addr : 0..MaxOcc, reg : 0..MaxOcc, bare : 0..MaxOcc]

CheckPointerUsage ==
    /\ pc = "check_function_pointer_usage"
    /\ pointer_usage' = check_function_pointer_usage(c_text)
    /\ pc' = "done"
    /\ UNCHANGED <<c_text, result, prev_result, metadata,
                   target, graphVars, reachVars, scanVars, pipeVars, uiVars>>

InitPointer ==
    /\ pc = "check_function_pointer_usage"
    /\ target \in NamesA
    /\ c_text \in PointerTexts
    /\ result = NoResult
    /\ prev_result = NoResult
    /\ pointer_usage = NoResult
    /\ metadata = NoResult
    /\ GraphIdle
    /\ ReachIdle
    /\ ScanIdle
    /\ PipeIdle
    /\ UiIdle

NextPointer == CheckPointerUsage

SpecPointer == InitPointer /\ [][NextPointer]_vars

(***************************************************************************)
(* Specification of the metadata extractor alone: a text of at most        *)
(* MaxLinesM lines, headers with or without a #uses hint and call lines,   *)
(* over names that differ in case only ('A', 'a') or altogether ('b').     *)
(***************************************************************************)
MetaNames == {"A", "a", "b"}

MetaLines ==
    {Line("node", n, u) : n \in MetaNames, u \in {<<>>, <<1>>, <<2>>}}
    \cup {Line("call", n, <<>>) : n \in MetaNames}

\* FunctionMetadata(name=target) with uses_count set
FunctionMetadata(t, n) == [kind |-> "metadata", name |-> t, uses_count |-> n]

ParseFunctionMetadata ==
    /\ pc = "parse_function_metadata"
    /\ metadata' = FunctionMetadata(target, parse_function_metadata(cg_text, target))
    /\ pc' = "done"
    /\ UNCHANGED <<c_text, result, prev_result, pointer_usage,
                   target, graphVars, reachVars, scanVars, pipeVars, uiVars>>

InitMeta ==
    /\ pc = "parse_function_metadata"
    /\ cg_text \in SeqsUpTo(MetaLines, MaxLinesM)
    /\ target \in MetaNames
    /\ callers_map = EmptyDict
    /\ callees_map = EmptyDict
    /\ c_text = [addr |-> 0, reg |-> 0, bare |-> 0]
    /\ result = NoResult
    /\ prev_result = NoResult
    /\ pointer_usage = NoResult
    /\ metadata = NoResult
    /\ ReachIdle
    /\ ScanIdle
    /\ PipeIdle
    /\ UiIdle

NextMeta == ParseFunctionMetadata

SpecMeta == InitMeta /\ [][NextMeta]_vars

(***************************************************************************)
(* Candidate discovery of _remove_function_from_c_source.  Python string   *)
(* methods on a text t: positions are 0-based, -1 means "not there".       *)
(***************************************************************************)
SetMin(S) == CHOOSE x \in S : \A y \in S : x <= y

SetMax(S) == CHOOSE x \in S : \A y \in S : x >= y

\* t[a:b]
Slice(t, a, b) == SubSeq(t, a + 1, b)

\* t.startswith(pat, k)
StartsAt(t, pat, k) ==
    /\ k >= 0
    /\ k + Len(pat) <= Len(t)
    /\ \A j \in 1..Len(pat) : t[k + j] = pat[j]

\* t.find(pat, from)
Find(t, pat, from) ==
    LET S == {k \in from..Len(t) : StartsAt(t, pat, k)}
    IN IF S = {} THEN -1 ELSE SetMin(S)

\* t.rfind(pat, lo, hi)
RFind(t, pat, lo, hi) ==
    LET S == {k \in lo..hi : k + Len(pat) <= hi /\ StartsAt(t, pat, k)}
    IN IF S = {} THEN -1 ELSE SetMax(S)

\* src_text.replace("\r\n", "\n")
RECURSIVE Normalize(_)
Normalize(t) ==
    IF t = <<>> THEN <<>>
    ELSE IF StartsAt(t, <<"\r", "\n">>, 0) THEN <<"\n">> \o Normalize(Slice(t, 2, Len(t)))
    ELSE <<t[1]>> \o Normalize(Slice(t, 1, Len(t)))

WordChars == {"f", "g", "x"}

SpaceChars == {" ", "\n", "\r"}

\* the characters of a function name; the names tried are single letters
Name(func) == <<func>>

\* \b before the name at position q
WordBoundaryBefore(t, q) == q = 0 \/ At(t, q - 1) \notin WordChars

\* the first position >= k holding a character of set C, or -1
FirstOf(t, C, k) ==
    LET S == {j \in k..(Len(t) - 1) : At(t, j) \in C}
    IN IF S = {} THEN -1 ELSE SetMin(S)

\* the first position >= k holding a character not in set C, or -1
FirstNotOf(t, C, k) ==
    LET S == {j \in k..(Len(t) - 1) : At(t, j) \notin C}
    IN IF S = {} THEN -1 ELSE SetMin(S)

\* Where  \bFUNC\s*\([^)]*\)[^{;]*?\{  ends when it is tried at position q:
\* the position of the `{` it consumes, or -1 when it does not match there.
RestMatch(t, func, q) ==
    LET open == FirstNotOf(t, SpaceChars, q + Len(Name(func)))
        close == IF open = -1 THEN -1 ELSE FirstOf(t, {")"}, open + 1)
        term == IF close = -1 THEN -1 ELSE FirstOf(t, {"{", ";"}, close + 1)
    IN IF ~StartsAt(t, Name(func), q) \/ ~WordBoundaryBefore(t, q) THEN -1
       ELSE IF open = -1 \/ At(t, open) # "(" THEN -1
       ELSE IF term = -1 \/ At(t, term) # "{" THEN -1
       ELSE term

\* the start of the line position q is on
LineStart(t, q) == RFind(t, <<"\n">>, 0, q) + 1

\* matches[0] of pattern.finditer(text), as [start, end], or NoResult when
\* the list is empty.  (?:^|\n)(?:[^\n]*?) reaches the name from the start
\* of its line, or from the newline before it when the line is not the first.
FirstMatch(t, func) ==
    LET Q == {q \in 0..(Len(t) - 1) : RestMatch(t, func, q) # -1}
        q == SetMin(Q)
        line == LineStart(t, q)
    IN IF Q = {} THEN NoResult
       ELSE [kind |-> "match",
             start |-> IF line = 0 THEN 0 ELSE line - 1,
             end |-> RestMatch(t, func, q) + 1]

\* s.strip()
RECURSIVE Strip(_)
Strip(s) ==
    IF s = <<>> THEN s
    ELSE IF s[1] \in SpaceChars THEN Strip(Slice(s, 1, Len(s)))
    ELSE IF s[Len(s)] \in SpaceChars THEN Strip(Slice(s, 0, Len(s) - 1))
    ELSE s

\* prev_line and not prev_line.startswith(('//','/*'))
\*           and not prev_line.endswith((';','}','{'))
IsReturnTypeLine(prev_line) ==
    /\ prev_line # <<>>
    /\ ~StartsAt(prev_line, <<"/", "/">>, 0)
    /\ ~StartsAt(prev_line, <<"/", "*">>, 0)
    /\ prev_line[Len(prev_line)] \notin {";", "}", "{"}

\* while check_pos > 0: ...   (the value of sig_start after the loop)
RECURSIVE BackScan(_, _, _)
BackScan(t, ss, check_pos) ==
    IF check_pos <= 0 THEN ss
    ELSE LET prev_line_start == RFind(t, <<"\n">>, 0, check_pos - 1) + 1
             prev_line == Strip(Slice(t, prev_line_start, check_pos))
         IN IF IsReturnTypeLine(prev_line)
            THEN BackScan(t, prev_line_start, prev_line_start)
            ELSE ss

\* the values returned before the scan starts
FailureValue(t, reason) ==
    [kind |-> "return", new_text |-> t, removed |-> FALSE,
     reason |-> reason, count |-> 0]

NotFoundAsPrototypeOnly(t) == FailureValue(t, "Only prototype found")

NotFoundValue(t) == FailureValue(t, "Function not found")

NoBraceValue(t) == FailureValue(t, "No opening brace found")

PrototypeOnlyValue(t) == FailureValue(t, "Only prototype found")

Candidate(ss, b) == [kind |-> "candidate", sig_start |-> ss, brace_idx |-> b]

\* if not matches: ...   (the fallback: simple search)
Fallback(src, t, func) ==
    LET pat == Name(func) \o <<"(">>
        name_idx == Find(t, pat, 0)
        semi_idx == Find(t, <<";">>, name_idx)
        first_brace == Find(t, <<"{">>, name_idx)
        next_idx == Find(t, pat, name_idx + 1)
        next_brace == Find(t, <<"{">>, next_idx)
        WithSigStart(n, b) ==
            LET ss == RFind(t, <<"\n">>, 0, n) + 1
            IN Candidate(BackScan(t, ss, ss - 1), b)
    IN IF name_idx = -1 THEN NotFoundValue(src)
       ELSE IF first_brace = -1 THEN NoBraceValue(src)
       ELSE IF semi_idx # -1 /\ semi_idx < first_brace
            THEN IF next_idx = -1 THEN PrototypeOnlyValue(src)
                 ELSE IF next_brace = -1 THEN NoBraceValue(src)
                 ELSE WithSigStart(next_idx, next_brace)
       ELSE WithSigStart(name_idx, first_brace)

\* lines 55..119: the candidate, or the value returned without one
Discover(src, func) ==
    LET t == Normalize(src)
        match == FirstMatch(t, func)
    IN IF match = NoResult THEN Fallback(src, t, func)
       ELSE Candidate(match.start, match.end - 1)

\* one iteration of `while i < n:` that does not return
ScanStep(t, st) ==
    IF st.escape_next THEN EscapedStep(st)
    ELSE IF st.in_string THEN StringStep(st, At(t, st.i))
    ELSE IF st.in_char THEN CharStep(st, At(t, st.i))
    ELSE IF st.in_sl_comment THEN LineCommentStep(st, At(t, st.i))
    ELSE IF st.in_ml_comment THEN BlockCommentStep(st, At(t, st.i), NextCh(t, st.i))
    ELSE NormalStep(st, At(t, st.i), NextCh(t, st.i))

\* the iteration at st reads, in normal mode, the brace that closes the body
ClosesBody(t, st) ==
    /\ ~st.escape_next /\ ~st.in_string /\ ~st.in_char
    /\ ~st.in_sl_comment /\ ~st.in_ml_comment
    /\ At(t, st.i) = "}"
    /\ NormalStep(st, At(t, st.i), NextCh(t, st.i)).depth = 0

\* lines 125..200: the scan run to its return
RECURSIVE ScanRun(_, _, _, _)
ScanRun(src, t, ss, st) ==
    IF st.i >= Len(t) THEN UnbalancedValue(src, st.depth)
    ELSE IF ClosesBody(t, st) THEN RemovedValue(t, ss, st.i)
    ELSE ScanRun(src, t, ss, ScanStep(t, st))

\* the locals of the scan as they are kept from the previous call
StaleLocals(b) == [Locals EXCEPT !.i = b]

\* i = brace_idx; depth = 0; in_string = False; ...
InitialLocals(b) ==
    [i |-> b, depth |-> 0, in_string |-> FALSE, in_char |-> FALSE,
     in_sl_comment |-> FALSE, in_ml_comment |-> FALSE, escape_next |-> FALSE]

\* _remove_function_from_c_source(src_text, func) as one call
remove_function_from_c_source(src, func) ==
    LET found == Discover(src, func)
    IN IF found.kind = "candidate"
       THEN ScanRun(src, Normalize(src), found.sig_start, InitialLocals(found.brace_idx))
       ELSE found

RemoveFrame == UNCHANGED <<target, graphVars, reachVars, analyzeVars, pipeVars, uiVars>>

\* _remove_function_from_c_source up to the start of the scan
Locate ==
    /\ pc = "locate"
    /\ text' = Normalize(src_text)
    /\ LET found == Discover(src_text, target)
       IN IF found.kind = "candidate"
          THEN /\ sig_start' = found.sig_start
               /\ brace_idx' = found.brace_idx
               /\ SetLocals(InitialLocals(found.brace_idx))
               /\ pc' = "scan"
               /\ UNCHANGED ret
          ELSE /\ ret' = found
               /\ pc' = "done"
               /\ UNCHANGED <<sig_start, brace_idx, i, depth, in_string, in_char,
                              in_sl_comment, in_ml_comment, escape_next>>
    /\ UNCHANGED <<frags, src_text, prev_ret>>
    /\ RemoveFrame

\* the caller applies the function a second time to the same src_text
CallAgain ==
    /\ pc = "done"
    /\ prev_ret = NoResult
    /\ prev_ret' = ret
    /\ ret' = NoResult
    /\ pc' = "locate"
    /\ UNCHANGED <<frags, src_text, text, sig_start, brace_idx, i, depth, in_string,
                   in_char, in_sl_comment, in_ml_comment, escape_next>>
    /\ RemoveFrame

(***************************************************************************)
(* Specification of the removal: the target is f and the source text is    *)
(* made of at most MaxFrags pieces, each one of:                           *)
(*   Proto  f();        a prototype of the target                          *)
(*   Defn   f(){}       a definition of the target                         *)
(*   Open   f(){        a definition whose body is never closed            *)
(*   Type   x<space>    a return type                                      *)
(*   Caller g(){f();}   another function, which calls the target           *)
(*   Other  g(){}       another function                                   *)
(*   IfCall g(){x(f()){}}                                                  *)
(*          another function, which calls the target in the condition of   *)
(*          a statement with a block (x stands for if / while)             *)
(*   Longer gf(){}      a function whose name ends with the target's name  *)
(*   Quoted f(){"\"}"'}'/*}*///}<newline>}                                *)
(*          a definition whose body holds a brace in a string literal with *)
(*          an escaped quote, in a character literal, in a block comment   *)
(*          and in a line comment                                          *)
(*   NL     a newline   CRLF   a carriage return and a newline             *)
(***************************************************************************)
Proto == <<"f", "(", ")", ";">>

Defn == <<"f", "(", ")", "{", "}">>

Open == <<"f", "(", ")", "{">>

Quoted ==
    <<"f", "(", ")", "{", "\"", "\\", "\"", "}", "\"", "'", "}", "'",
      "/", "*", "}", "*", "/", "/", "/", "}", "\n", "}">>

Type == <<"x", " ">>

Caller == <<"g", "(", ")", "{", "f", "(", ")", ";", "}">>

Other == <<"g", "(", ")", "{", "}">>

IfCall == <<"g", "(", ")", "{", "x", "(", "f", "(", ")", ")", "{", "}", "}">>

Longer == <<"g", "f", "(", ")", "{", "}">>

NL == <<"\n">>

CRLF == <<"\r", "\n">>

Fragments == {Proto, Defn, Open, Quoted, Type, Caller, Other, IfCall, Longer, NL, CRLF}

RECURSIVE Flatten(_)
Flatten(fs) == IF fs = <<>> THEN <<>> ELSE fs[1] \o Flatten(SubSeq(fs, 2, Len(fs)))

InitRemove ==
    /\ pc = "locate"
    /\ target = "f"
    /\ frags \in SeqsUpTo(Fragments, MaxFrags)
    /\ src_text = Flatten(frags)
    /\ prev_ret = NoResult
    /\ text = <<>>
    /\ sig_start = 0
    /\ brace_idx = 0
    /\ i = 0
    /\ depth = 0
    /\ in_string = FALSE
    /\ in_char = FALSE
    /\ in_sl_comment = FALSE
    /\ in_ml_comment = FALSE
    /\ escape_next = FALSE
    /\ ret = NoResult
    /\ GraphIdle
    /\ ReachIdle
    /\ AnalyzeIdle
    /\ PipeIdle
    /\ UiIdle

NextRemove ==
    \/ Locate
    \/ CallAgain
    \/ ScanEscaped
    \/ ScanString
    \/ ScanChar
    \/ ScanLineComment
    \/ ScanBlockComment
    \/ ScanNormal
    \/ ScanExhausted

SpecRemove == InitRemove /\ [][NextRemove]_vars

(***************************************************************************)
(* The Streamlit UI of app.py.  st.session_state is a dict from key to     *)
(* value; a string value s is kept as Str(s) and Python's None as PyNone.  *)
(* Every event (an upload, a selection, a click) runs the script once from *)
(* top to bottom: Script.  The widgets keep their values between runs.     *)
(***************************************************************************)
Has(d, k) == k \in DOMAIN d

Put(d, k, v) == [x \in DOMAIN d \cup {k} |-> IF x = k THEN v ELSE d[x]]

PutAll(d, e) == [x \in DOMAIN d \cup DOMAIN e |-> IF x \in DOMAIN e THEN e[x] ELSE d[x]]

Pop(d, K) == [x \in DOMAIN d \ K |-> d[x]]

PyNone == [kind |-> "None"]

Str(s) == [kind |-> "str", s |-> s]

NoFile == [kind |-> "nofile"]

File(name, content) == [kind |-> "file", name |-> name, content |-> content]

\* the call graphs uploaded: f and g unrelated; g calls f
CgIsolated == File("isolated.txt", <<Line("node", "f", <<>>), Line("node", "g", <<>>)>>)

CgCalled ==
    File("called.txt", <<Line("node", "f", <<>>), Line("node", "g", <<>>), Line("call", "f", <<>>)>>)

CgFiles == {CgIsolated, CgCalled}

\* the C sources uploaded: f and g defined; only g defined
SrcBoth == File("both.c", Defn \o NL \o Other)

SrcOnlyG == File("g.c", Other \o NL)

SrcFiles == {SrcBoth, SrcOnlyG}

\* what check_function_pointer_usage sees in these sources: definitions and
\* calls only
PointerView(content) == [addr |-> 0, reg |-> 0, bare |-> 0]

\* get_file_hash(file_bytes): MD5, taken as free of collisions
get_file_hash(content) == [kind |-> "md5", of |-> content]

\* the temporary file written for an upload
TempPath(content) == [kind |-> "path", holds |-> content]

\* extract_all_functions(text)
extract_all_functions(lines) ==
    Sorted({lines[k].name : k \in {x \in DOMAIN lines : NODE_RX_match(lines[x])}} \ {"<null>"})

RemovalKeys ==
    {"removed_func", "updated_src", "orig_src", "src_name", "removal_info", "saved_file_path"}

AnalysisKeys ==
    {"last_agent_result", "static_decision", "llm_decision", "llm_rationale",
     "direct_callers", "trans_callers", "direct_callees", "trans_callees",
     "snippet", "edge_warnings", "pointer_usage", "func_metadata"}

\* a _clear_removal_state that removes nothing
ClearRemovalStateKeepsAll(ss) == ss

_clear_removal_state(ss) == Pop(ss, RemovalKeys)

_clear_analysis_state(ss) == Pop(ss, AnalysisKeys)

DefaultWidgets ==
    [cg_file |-> NoFile, src_file |-> NoFile, target_select |-> "", force_remove |-> FALSE]

\* if "__src_text__" not in st.session_state: ...   (the four defaults)
SourceDefaults(ss) ==
    PutAll([__src_text__ |-> PyNone, __src_name__ |-> Str("source.c"),
            __src_hash__ |-> PyNone, __src_temp_path__ |-> PyNone], ss)

\* if src_file: ... else: ...   (session state after the upload handling)
SourceUpload(ss, w) ==
    LET s1 == SourceDefaults(ss)
        f == w.src_file
    IN IF f # NoFile /\ get_file_hash(f.content) # s1["__src_hash__"]
       THEN _clear_analysis_state(_clear_removal_state(
                PutAll(s1, [__src_text__ |-> Str(f.content),
                            __src_name__ |-> Str(f.name),
                            __src_hash__ |-> get_file_hash(f.content),
                            __src_temp_path__ |-> TempPath(f.content)])))
       ELSE s1

\* the local src_temp_path after the upload handling has left the session
\* state ss
src_temp_path(ss, w) ==
    IF w.src_file # NoFile THEN TempPath(w.src_file.content)
    ELSE IF ss["__src_text__"] # PyNone THEN ss["__src_temp_path__"]
    ELSE PyNone

cg_functions(w) ==
    IF w.cg_file = NoFile THEN <<>> ELSE extract_all_functions(w.cg_file.content)

\* if "selected_target" not in st.session_state: ...
TargetDefault(ss, funcs) ==
    IF Has(ss, "selected_target") THEN ss
    ELSE Put(ss, "selected_target", IF funcs # <<>> THEN funcs[1] ELSE "")

\* widget_options
widget_options(ss, funcs) ==
    IF funcs # <<>> THEN funcs
    ELSE IF ss["selected_target"] # "" THEN <<ss["selected_target"]>> ELSE <<>>

\* st.selectbox(..., key="target_select"): the value kept for the key when
\* it is one of the options, else the first option
selected(options, kept) ==
    IF options = <<>> THEN ""
    ELSE IF kept \in Range(options) THEN kept
    ELSE options[1]

\* if selected and selected != st.session_state["selected_target"]: ...
StoreSelected(ss, sel) ==
    IF sel # "" /\ sel # ss["selected_target"] THEN Put(ss, "selected_target", sel) ELSE ss

\* session state after the target selector, from the state ss that has its
\* default
SelectIn(ss, w, funcs) == StoreSelected(ss, selected(widget_options(ss, funcs), w.target_select))

TargetSelector(ss, w) == SelectIn(TargetDefault(ss, cg_functions(w)), w, cg_functions(w))

\* the state the pipeline returns: the analysis r and the model's answer llm
FinalState(r, llm) ==
    [target |-> r.target, decision |-> r.decision, llm_decision |-> llm, analysis |-> r]

\* cg_app.invoke({...}) when no stage raises
Invocation(cg_lines, content, t, llm) ==
    FinalState(analyze_target_value(cg_lines, parse_callgraph_text(cg_lines),
                                    parse_callees_map(cg_lines), PointerView(content), t),
               llm)

\* st.session_state["last_agent_result"] = result ... ["func_metadata"] = ...
StoreResult(ss, res, llm) ==
       IF llm = "raised" THEN ss
       ELSE PutAll(ss, [last_agent_result |-> res,
                        static_decision |-> res.decision,
                        llm_decision |-> res.llm_decision,
                        llm_rationale |-> "rationale",
                        direct_callers |-> res.analysis.callers,
                        trans_callers |-> res.analysis.callers_transitive,
                        direct_callees |-> res.analysis.callees,
                        trans_callees |-> res.analysis.callees_transitive,
                        snippet |-> "snippet",
                        edge_warnings |-> res.analysis.edge_case_warnings,
                        pointer_usage |-> res.analysis.pointer_usage,
                        func_metadata |-> res.analysis.uses_count])

\* if go and cg_temp_path and src_temp_path and target: ...
\* llm = "raised": the invocation raises and the run ends after the clearing
RunAnalyzer(ss, w, llm) ==
    StoreResult(_clear_analysis_state(_clear_removal_state(ss)),
                Invocation(w.cg_file.content, src_temp_path(ss, w).holds,
                           ss["selected_target"], llm),
                llm)

\* the button condition of Analyze, in the state ss the selector has left
AnalyzeEnabled(ss, w) ==
    /\ w.cg_file # NoFile
    /\ src_temp_path(ss, w) # PyNone
    /\ ss["selected_target"] # ""

\* allow_remove
allow_remove(ss, w) ==
    \/ ss["static_decision"] = "SAFE_TO_REMOVE" /\ ss["llm_decision"] = "REMOVE"
    \/ w.force_remove

\* the Confirm button is rendered
ConfirmEnabled(ss, w) == Has(ss, "last_agent_result") /\ allow_remove(ss, w)

\* if st.button(f"Confirm removal of '{target}'"): ...
\* if removed: st.session_state["removed_func"] = target ...
StoreRemoval(ss, t, base, r) ==
    IF r.removed
    THEN PutAll(ss, [removed_func |-> t,
                     updated_src |-> Str(r.new_text),
                     orig_src |-> base,
                     src_name |-> ss["__src_name__"],
                     removal_info |-> r.count,
                     saved_file_path |-> TempPath(r.new_text)])
    ELSE ss

\* the handler on the cached text base and the target t
RemoveFrom(ss, t, base) ==
    IF base = PyNone \/ base.s = <<>> THEN ss
    ELSE IF Find(base.s, Name(t), 0) = -1 THEN ss
    ELSE StoreRemoval(ss, t, base, remove_function_from_c_source(base.s, t))

ConfirmRemoval(ss) == RemoveFrom(ss, ss["selected_target"], ss["__src_text__"])

\* one run of the script on event ev
\* the end of a run: the selectbox holds the stored selection (it is one of
\* its options), the checkbox is kept only while it is rendered
EndOfRun(ss, w) ==
    [ss |-> ss,
     w |-> [w EXCEPT !.target_select = ss["selected_target"],
                     !.force_remove = IF Has(ss, "last_agent_result") THEN @ ELSE FALSE]]

\* the results panel and the Confirm button
ConfirmPart(ss, w, ev) ==
    EndOfRun(IF ev = "confirm" /\ ConfirmEnabled(ss, w) THEN ConfirmRemoval(ss) ELSE ss, w)

\* the Analyze button
AnalyzePart(ss, w, ev, llm) ==
    ConfirmPart(IF ev = "analyze" /\ AnalyzeEnabled(ss, w) THEN RunAnalyzer(ss, w, llm) ELSE ss,
                w, ev)

\* one run of the script on event ev
Script(ss0, w, ev, llm) ==
    AnalyzePart(TargetSelector(SourceUpload(IF ev = "clear" THEN EmptyDict ELSE ss0, w), w),
                w, ev, llm)

StoreRun(out) ==
    /\ session_state' = out.ss
    /\ widgets' = out.w

Run(w, ev, llm) == StoreRun(Script(session_state, w, ev, llm))

UiFrame == UNCHANGED <<pc, target, graphVars, reachVars, analyzeVars, scanVars, pipeVars>>

UploadCallgraph ==
    /\ pc = "ui"
    /\ \E f \in (CgFiles \cup {NoFile}) \ {widgets.cg_file} :
           Run([widgets EXCEPT !.cg_file = f], "none", "none")
    /\ UiFrame

UploadSource ==
    /\ pc = "ui"
    /\ \E f \in (SrcFiles \cup {NoFile}) \ {widgets.src_file} :
           Run([widgets EXCEPT !.src_file = f], "none", "none")
    /\ UiFrame

SelectTarget ==
    /\ pc = "ui"
    /\ \E t \in Range(widget_options(session_state, cg_functions(widgets))) \ {widgets.target_select} :
           Run([widgets EXCEPT !.target_select = t], "none", "none")
    /\ UiFrame

ToggleForce ==
    /\ pc = "ui"
    /\ Has(session_state, "last_agent_result")
    /\ Run([widgets EXCEPT !.force_remove = ~@], "none", "none")
    /\ UiFrame

ClickAnalyze ==
    /\ pc = "ui"
    /\ AnalyzeEnabled(session_state, widgets)
    /\ \E llm \in LlmDecisions \cup {"raised"} : Run(widgets, "analyze", llm)
    /\ UiFrame

ClickConfirm ==
    /\ pc = "ui"
    /\ ConfirmEnabled(session_state, widgets)
    /\ Run(widgets, "confirm", "none")
    /\ UiFrame

\* "Clear all data": every key is deleted and the script runs again; the
\* widgets keep their values or fall back to their defaults
ClearAll ==
    /\ pc = "ui"
    /\ \E w \in {widgets, DefaultWidgets} : Run(w, "clear", "none")
    /\ UiFrame

InitUI ==
    /\ pc = "ui"
    /\ target = None
    /\ session_state = Script(EmptyDict, DefaultWidgets, "none", "none").ss
    /\ widgets = DefaultWidgets
    /\ GraphIdle
    /\ ReachIdle
    /\ AnalyzeIdle
    /\ ScanIdle
    /\ PipeIdle

NextUI ==
    \/ UploadCallgraph
    \/ UploadSource
    \/ SelectTarget
    \/ ToggleForce
    \/ ClickAnalyze
    \/ ClickConfirm
    \/ ClearAll

SpecUI == InitUI /\ [][NextUI]_vars

(***************************************************************************)
(* Claims about analyze_target (SpecAnalyze).                              *)
(***************************************************************************)
Analyzed(r) == r.kind = "analysis"

NoCaller(r) == r.callers = <<>> /\ r.callers_transitive = <<>>

NoHardEvidence(r) ==
    ~r.pointer_usage.has_address_taken /\ r.pointer_usage.function_registration = <<>>

\* C1 (as claimed): with no direct or transitive caller and a #uses hint
\* greater than 0 the verdict is DEPENDENT and at least one warning is emitted.
C1_UsesHintForcesDependent ==
    (Analyzed(result) /\ NoCaller(result) /\ result.uses_count > 0)
        => (result.decision = "DEPENDENT" /\ Len(result.edge_case_warnings) >= 1)

\* C3: a target with at least one direct or transitive caller is DEPENDENT,
\* whatever the #uses hint and the pointer evidence.
C3_CallerImpliesDependent ==
    (Analyzed(result) /\ ~NoCaller(result)) => result.decision = "DEPENDENT"

C3_Witness ==
    /\ Analyzed(result)
    /\ result.callers # <<>>
    /\ result.uses_count = 0
    /\ NoHardEvidence(result)
    /\ result.pointer_usage.suspicious_patterns = 0

\* C4: with no caller, a #uses hint of 0 and neither address-of nor
\* registration evidence the verdict is SAFE_TO_REMOVE; the verdict is always
\* SAFE_TO_REMOVE or DEPENDENT.
C4_NoEvidenceIsSafe ==
    Analyzed(result) =>
        /\ result.decision \in {"SAFE_TO_REMOVE", "DEPENDENT"}
        /\ (NoCaller(result) /\ result.uses_count = 0 /\ NoHardEvidence(result))
               => result.decision = "SAFE_TO_REMOVE"

C4_Witness ==
    /\ Analyzed(result)
    /\ NoCaller(result)
    /\ result.uses_count = 0
    /\ NoHardEvidence(result)
    /\ result.callees # <<>>
    /\ result.decision = "SAFE_TO_REMOVE"

\* C5: with no caller but address-taken or a registration the verdict is
\* DEPENDENT and there is at least one warning.
C5_HardEvidenceForcesDependent ==
    (Analyzed(result) /\ NoCaller(result) /\ ~NoHardEvidence(result))
        => (result.decision = "DEPENDENT" /\ Len(result.edge_case_warnings) >= 1)

C5_Witness ==
    /\ Analyzed(result)
    /\ NoCaller(result)
    /\ result.pointer_usage.has_address_taken
    /\ result.pointer_usage.function_registration = <<>>
    /\ result.uses_count = 0
    /\ result.decision = "DEPENDENT"

SameButSuspicious(r1, r2) ==
    /\ Analyzed(r1) /\ Analyzed(r2)
    /\ r1.target = r2.target
    /\ r1.callers = r2.callers
    /\ r1.callers_transitive = r2.callers_transitive
    /\ r1.callees = r2.callees
    /\ r1.uses_count = r2.uses_count
    /\ r1.pointer_usage.has_address_taken = r2.pointer_usage.has_address_taken
    /\ r1.pointer_usage.function_registration = r2.pointer_usage.function_registration

NotSuspicious(w) == w # "SUSPICIOUS"

\* C6: two evaluations that agree on the callers, the #uses hint, address-taken
\* and the registrations yield the same verdict whatever their suspicious
\* counts; the warnings differ at most by the suspicious-pattern warning.
C6_SuspiciousNeverFlips ==
    SameButSuspicious(prev_result, result) =>
        /\ prev_result.decision = result.decision
        /\ SelectSeq(prev_result.edge_case_warnings, NotSuspicious)
             = SelectSeq(result.edge_case_warnings, NotSuspicious)

C6_Witness ==
    /\ SameButSuspicious(prev_result, result)
    /\ prev_result.pointer_usage.suspicious_patterns = 0
    /\ result.pointer_usage.suspicious_patterns > SuspiciousLimit
    /\ result.decision = "SAFE_TO_REMOVE"
    /\ prev_result.edge_case_warnings # result.edge_case_warnings

(***************************************************************************)
(* Claims about the parsers (SpecParse).                                   *)
(***************************************************************************)
\* C7: the maps built from one text are dual: b is in callees_map[a] exactly
\* when a is in callers_map[b], for all names a and b.
C7_MapsAreDual ==
    pc = "analyze_target" =>
        \A a \in Names, b \in Names :
            b \in Get(callees_map, a) <=> a \in Get(callers_map, b)

C7_Witness ==
    /\ pc = "analyze_target"
    /\ Len(cg_text) = MaxLines
    /\ cg_text[1].form = "call"
    /\ cg_text[MaxLines].form = "call_upper"
    /\ \E a \in Names, b \in Names : a # b /\ b \in Get(callees_map, a)

(***************************************************************************)
(* Claims about the traversals (SpecReach).                                *)
(***************************************************************************)
CallersReturned == pc \in {"get_transitive_callees", "callees_loop", "done"}

\* C2 (as claimed): get_transitive_callers(callers_map, t) never contains t,
\* also when t lies on a call cycle or calls itself.
C2_CallersExcludeTarget ==
    CallersReturned => target \notin Range(callers_transitive)

\* C8: every direct caller of t is among get_transitive_callers(callers_map, t).
C8_DirectCallersIncluded ==
    CallersReturned => Get(callers_map, target) \subseteq Range(callers_transitive)

C8_Witness ==
    /\ CallersReturned
    /\ Cardinality(Get(callers_map, target)) = 2
    /\ Range(callers_transitive) # Get(callers_map, target)

\* C9: get_transitive_callees(callees_map, t, max_depth=1) is exactly the
\* sorted direct callees of t.
C9_DepthOneIsDirect ==
    (pc = "done" /\ max_depth = 1) => callees_transitive = Sorted(Get(callees_map, target))

C9_Witness ==
    /\ pc = "done"
    /\ max_depth = 1
    /\ Len(callees_transitive) = 2
    /\ \E x \in Get(callees_map, target) :
         \E y \in Get(callees_map, x) : y \notin Get(callees_map, target) /\ y # target

(***************************************************************************)
(* Claims about the brace-matching scan (SpecScan).                        *)
(***************************************************************************)
NormalMode ==
    ~escape_next /\ ~in_string /\ ~in_char /\ ~in_sl_comment /\ ~in_ml_comment

InLiteral == in_string \/ in_char

BodyText == SubSeq(text, Len(Signature) + 1, Len(text))

\* the body is one string literal, free of quotes and backslashes, and then
\* the closing brace:  f(){"..."}
StringLiteralBody ==
    /\ Len(BodyText) >= 3
    /\ BodyText[1] = "\""
    /\ BodyText[Len(BodyText) - 1] = "\""
    /\ BodyText[Len(BodyText)] = "}"
    /\ \A k \in 2..(Len(BodyText) - 2) : BodyText[k] \notin {"\"", "\\"}

\* the depth changes only on a brace read in normal mode
DepthOnlyInNormalMode ==
    depth' # depth => (Scanning /\ NormalMode /\ At(text, i) \in {"{", "}"})

\* a backslash read inside a literal escapes the character after it: that
\* character, a quote included, leaves the literal and the depth as they are
BackslashEscapes ==
    /\ (Scanning /\ InLiteral /\ ~escape_next /\ At(text, i) = "\\")
           => (escape_next' /\ in_string' = in_string /\ in_char' = in_char)
    /\ (Scanning /\ escape_next)
           => (in_string' = in_string /\ in_char' = in_char /\ depth' = depth /\ i' = i + 1)

\* a body that is a string literal holding braces ends at its real closing brace
LiteralBodyMatched ==
    (pc = "done" /\ StringLiteralBody) => (ret.removed /\ i = Len(text) - 1)

\* C10: a brace changes the depth only in normal mode; braces inside string
\* and char literals and inside // and /* */ comments leave it unchanged; a
\* quote after a backslash does not end a literal; a body holding a string
\* literal with a brace is matched to its real closing brace.
C10_BracesOnlyInNormalMode ==
    /\ [][DepthOnlyInNormalMode]_vars
    /\ [][BackslashEscapes]_vars
    /\ [](LiteralBodyMatched)

C10_Witness ==
    /\ pc = "done"
    /\ StringLiteralBody
    /\ \E k \in DOMAIN BodyText : BodyText[k] = "{"
    /\ ret.removed
    /\ ret.new_text = <<>>

(***************************************************************************)
(* Claims about _remove_function_from_c_source (SpecRemove).               *)
(***************************************************************************)
Returned == pc = "done"

Definitions == {Defn, Quoted}

\* the pieces that mention the target without being a closed definition of it
Mentions == {Proto, Open, Caller, IfCall, Longer}

\* the pieces that use the target's name without declaring or defining it
Uses == {Caller, IfCall, Longer}

Count(fs, S) == Cardinality({k \in DOMAIN fs : fs[k] \in S})

Contains(t, pat) == Find(t, pat, 0) # -1

\* the text of the first k pieces, as the function reads it
Upto(k) == Normalize(Flatten(SubSeq(frags, 1, k)))

\* one prototype of the target, one definition of it, the definition later
PrototypeThenDefinition ==
    /\ Count(frags, {Proto}) = 1
    /\ Count(frags, Definitions) = 1
    /\ Count(frags, {Open, IfCall, Longer}) = 0
    /\ \E j, k \in DOMAIN frags : j < k /\ frags[j] = Proto /\ frags[k] \in Definitions

\* C11: when the text holds a prototype of the target followed later by a
\* definition of it, the removal succeeds, the text up to the end of the
\* prototype is returned unchanged and no definition of the target is left.
C11_PrototypeSkipped ==
    (Returned /\ PrototypeThenDefinition) =>
        /\ ret.removed
        /\ \A j \in DOMAIN frags :
               frags[j] = Proto => StartsAt(ret.new_text, Upto(j), 0)
        /\ ~Contains(ret.new_text, Open)

\* the target is declared by prototype and never defined
PrototypeOnly ==
    /\ Count(frags, {Proto}) >= 1
    /\ Count(frags, Definitions \cup {Open, Longer}) = 0

\* C12: when the text declares the target only by prototype, whatever other
\* definitions and calls of the target it holds, nothing is removed and the
\* text returned is the input text.
C12_PrototypeOnlyUnchanged ==
    (Returned /\ PrototypeOnly) => (~ret.removed /\ ret.new_text = src_text)

\* the scan is at the end of the text: the depth never returned to zero
ScanRanOut == pc = "scan" /\ i >= Len(text)

UnbalancedReturn ==
    ScanRanOut =>
        /\ pc' = "done"
        /\ ~ret'.removed
        /\ ret'.new_text = src_text
        /\ ret'.reason = "Unbalanced braces"
        /\ ret'.count = depth

\* C13: when the scan from the opening brace of the candidate reaches the end
\* of the text without the depth returning to zero, the function returns
\* removed = False, the input text exactly as it was given, and a reason that
\* reports the final depth.
C13_UnbalancedReported == [][UnbalancedReturn]_vars

C13_Witness ==
    /\ Returned
    /\ ret.reason = "Unbalanced braces"
    /\ ret.count = 2
    /\ depth = 2
    /\ text # src_text
    /\ ret.new_text = src_text

NameAbsent == ~Contains(src_text, Name(target))

\* C14: when the target name occurs nowhere in the source text, the empty
\* text included, the function returns removed = False, the not-found reason
\* and the input text unchanged.
C14_AbsentNameNotFound ==
    (Returned /\ NameAbsent) =>
        /\ ~ret.removed
        /\ ret.reason = "Function not found"
        /\ ret.new_text = src_text

C14_Witness ==
    /\ Returned
    /\ NameAbsent
    /\ Contains(src_text, Other)
    /\ Contains(src_text, CRLF)
    /\ ret.reason = "Function not found"
    /\ ret.new_text = src_text

\* the last piece before piece k that is not a return type (0: none)
LineBreakBefore(k) ==
    LET S == {j \in 1..(k - 1) : frags[j] # Type}
    IN IF S = {} THEN 0 ELSE SetMax(S)

\* piece k is a definition of the target whose signature starts its line
OnItsSignatureLine(k) ==
    /\ frags[k] \in Definitions
    /\ LineBreakBefore(k) = 0 \/ frags[LineBreakBefore(k)] \in {NL, CRLF}

\* one definition of the target, on its signature line, and no other
\* occurrence of the target name
OneDefinition ==
    /\ Count(frags, Definitions) = 1
    /\ Count(frags, Mentions) = 0
    /\ \E k \in DOMAIN frags : OnItsSignatureLine(k)

\* the returned text is text without text[a:b], which holds text[from:to]
\* and, around it, newlines only
CutAround(from, to) ==
    \E a \in 0..from, b \in to..Len(text) :
        /\ ret.new_text = Slice(text, 0, a) \o Slice(text, b, Len(text))
        /\ ret.count = b - a
        /\ \A j \in (a..(from - 1)) \cup (to..(b - 1)) : At(text, j) = "\n"

TrimmedCut(from, to) ==
    LET a == IF from > 0 /\ At(text, from - 1) = "\n" THEN from - 1 ELSE from
        b == IF to < Len(text) /\ At(text, to) = "\n" THEN to + 1 ELSE to
    IN /\ ret.new_text = Slice(text, 0, a) \o Slice(text, b, Len(text))
       /\ ret.count = b - a

\* C16: a successful removal takes away the definition, from the start of
\* its signature to its closing brace, exactly one newline immediately before
\* it when there is one and exactly one immediately after it when there is
\* one, and no other character: a definition after a blank line loses one of
\* the two newlines before it.
C16_OneNewlineEachSide ==
    (Returned /\ OneDefinition /\ ret.removed) =>
        \A k \in DOMAIN frags :
            frags[k] \in Definitions =>
                TrimmedCut(Len(Upto(LineBreakBefore(k))), Len(Upto(k)))

\* the second call on the same src_text has returned
ReturnedTwice == Returned /\ prev_ret # NoResult

SecondCallAgrees == ReturnedTwice => ret = prev_ret

InputKept == src_text' = src_text /\ target' = target

C18_SnippetsCapped ==
    pc = "done" => pointer_usage.context_snippets <= SnippetCap

(***************************************************************************)
(* Claims about termination of the traversals (SpecReachFair).             *)
(***************************************************************************)
\* the interpreter runs the two loops without pause
SpecReachFair == SpecReach /\ WF_vars(NextReach)

InLoop == pc \in {"callers_loop", "callees_loop"} /\ work # <<>>

\* the node the next iteration pops
Who == IF pc = "callers_loop" THEN Last(work) ELSE Last(work)[1]

\* an iteration never takes a node out of the visited set, leaves the set
\* and pushes nothing when the popped node is in it, and adds no other node
ExpandOnce ==
    (InLoop /\ pc' = pc) =>
        /\ seen \subseteq seen'
        /\ Who \in seen => (seen' = seen /\ work' = Front(work))
        /\ seen' # seen => (Who \notin seen /\ seen' = seen \cup {Who})

\* C21: both traversals terminate on every call graph, cycles and self-calls
\* included, and a node is added to the visited set and has its neighbours
\* pushed at most once in a traversal.
C21_TraversalsTerminate == <>(pc = "done") /\ [][ExpandOnce]_vars

C21_Witness ==
    /\ pc = "done"
    /\ target \in Get(callers_map, target)
    /\ \E n \in Names \ {target} :
           /\ n \in Get(callers_map, target)
           /\ target \in Get(callers_map, n)
    /\ Len(callers_transitive) >= 2
    /\ Len(callees_transitive) >= 2

(***************************************************************************)
(* Claims about the order of enumeration (SpecReach).                      *)
(***************************************************************************)
\* ascending, no name twice
StrictlyAscending(s) == \A j, k \in DOMAIN s : j < k => Rank(s[j]) < Rank(s[k])

\* C19: whatever order the work-list and the neighbour sets are enumerated
\* in, get_transitive_callers and get_transitive_callees return the sequence
\* they return under the sorted enumeration, and that sequence is ascending
\* with no name twice.
C19_OrderIndependent ==
    pc = "done" =>
        /\ callers_transitive = get_transitive_callers(callers_map, target)
        /\ callees_transitive = get_transitive_callees(callees_map, target, max_depth)
        /\ StrictlyAscending(callers_transitive)
        /\ StrictlyAscending(callees_transitive)

(***************************************************************************)
(* Claims about parse_function_metadata (SpecMeta).                        *)
(***************************************************************************)
\* the header lines of the node named exactly target
ExactHeaders == {k \in DOMAIN cg_text : NODE_RX_match(cg_text[k]) /\ cg_text[k].name = target}

HintOf(line) == IF line.uses = <<>> THEN 0 ELSE line.uses[1]

\* C20: uses_count is the N of '#uses=N' on the header line of the node
\* named exactly target, and 0 when there is no header of exactly that name
\* or it carries no hint; it is never taken from the header of another name.
C20_HintFromExactHeader ==
    (pc = "done" /\ Cardinality(ExactHeaders) <= 1) =>
        /\ ExactHeaders = {} => metadata.uses_count = 0
        /\ \A k \in ExactHeaders : metadata.uses_count = HintOf(cg_text[k])

(***************************************************************************)
(* Claims about the depth bound of get_transitive_callees (SpecReach).     *)
(***************************************************************************)
\* the names reached from t by a path of between 1 and k forward edges
RECURSIVE WithinHops(_, _, _)
WithinHops(cm, t, k) ==
    IF k <= 1 THEN Get(cm, t)
    ELSE LET R == WithinHops(cm, t, k - 1)
         IN R \cup UNION {Get(cm, n) : n \in R}

\* C22: get_transitive_callees(callees_map, target, max_depth) returns
\* exactly the names reachable from target by a path of between 1 and
\* max_depth forward edges.
C22_CalleesWithinDepth ==
    pc = "done" => Range(callees_transitive) = WithinHops(callees_map, target, max_depth)

(***************************************************************************)
(* Claims about skipped lines and edges (SpecParse).                       *)
(***************************************************************************)
IsHeader(k) == NODE_RX_match(cg_text[k])

IsCall(k) == CALL_RX_match(cg_text[k])

\* the most recent header before line k (0: none)
HeaderBefore(k) ==
    LET S == {j \in 1..(k - 1) : IsHeader(j)}
    IN IF S = {} THEN 0 ELSE CHOOSE j \in S : \A x \in S : x <= j

\* one edge per call line that has a header before it
ExpectedEdges ==
    {<<cg_text[HeaderBefore(k)].name, cg_text[k].name>> :
        k \in {x \in DOMAIN cg_text : ~IsHeader(x) /\ IsCall(x) /\ HeaderBefore(x) # 0}}

\* C23: the parsers return on every text; the edges of the two maps are
\* exactly one per call line, from the most recent header before it to the
\* callee it names: lines that are neither header nor call line change
\* nothing, and a call line before the first header adds no edge.
C23_EdgesFromCallLines ==
    pc = "analyze_target" =>
        /\ \A a \in Names, b \in Names :
               /\ b \in Get(callees_map, a) <=> <<a, b>> \in ExpectedEdges
               /\ a \in Get(callers_map, b) <=> <<a, b>> \in ExpectedEdges
        /\ DOMAIN callees_map = {cg_text[k].name : k \in {x \in DOMAIN cg_text : IsHeader(x)}}
        /\ DOMAIN callers_map = {e[2] : e \in ExpectedEdges}

C23_Witness ==
    /\ pc = "analyze_target"
    /\ Len(cg_text) = MaxLines
    /\ IsHeader(1)
    /\ cg_text[MaxLines - 1] = OtherLine
    /\ IsCall(MaxLines)
    /\ cg_text[MaxLines].name \in Get(callees_map, cg_text[1].name)

(***************************************************************************)
(* Claims about the signature back-scan (SpecRemove).                      *)
(***************************************************************************)
\* piece k is the one definition of the target and its return type stands
\* alone on the line directly above the line that holds the name
ReturnTypeAbove(k) ==
    /\ k >= 3
    /\ frags[k] \in Definitions
    /\ frags[k - 1] \in {NL, CRLF}
    /\ frags[k - 2] = Type
    /\ k > 3 => frags[k - 3] \in {NL, CRLF}
    /\ Count(frags, Definitions) = 1
    /\ Count(frags, {Type}) = 1
    /\ Count(frags, Mentions) = 0

\* C24: when the return type of the target's definition stands on the line
\* directly above the line that holds the name, the removal succeeds and the
\* removed span starts at that line: no part of the signature is left in the
\* returned text.
C24_ReturnTypeLineRemoved ==
    \A k \in DOMAIN frags :
        (Returned /\ ReturnTypeAbove(k)) =>
            /\ ret.removed
            /\ ~Contains(ret.new_text, Type)

(***************************************************************************)
(* Claims about the lexical modes of the scan (SpecScan).                  *)
(***************************************************************************)
ModeFlags == <<in_string, in_char, in_sl_comment, in_ml_comment>>

FlagsSet == Cardinality({k \in DOMAIN ModeFlags : ModeFlags[k]})

\* C25: at every step of the scan at most one of in_string, in_char,
\* in_sl_comment and in_ml_comment is true, escape_next is set only in string
\* or char mode, and the depth is at least 1 from the opening brace until
\* the scan returns.
C25_ModesExclusive ==
    /\ FlagsSet <= 1
    /\ escape_next => (in_string \/ in_char)
    /\ (pc = "scan" /\ i > brace_idx) => depth >= 1

C25_Witness ==
    /\ pc = "scan"
    /\ in_string
    /\ escape_next
    /\ depth = 2
    /\ i = Len(text)

(***************************************************************************)
(* Claims about the pipeline (SpecPipeline).                               *)
(***************************************************************************)
PipelineOrder == <<"load_files", "parse_graph", "analyze_target", "llm_decide">>

IsPrefix(s, t) == Len(s) <= Len(t) /\ \A k \in DOMAIN s : s[k] = t[k]

\* C26: an invocation runs load_files, parse_graph, analyze_target and
\* llm_decide in that order and, when it completes, each exactly once;
\* analyze_target runs only when callers_map and callees_map are in the
\* state, llm_decide only when the static decision is.
C26_StagesInOrder ==
    /\ IsPrefix(stages_run, PipelineOrder)
    /\ pc = "END" => stages_run = PipelineOrder
    /\ pc = "analyze_target" => {"callers_map", "callees_map"} \subseteq state_keys
    /\ pc = "llm_decide" => "decision" \in state_keys

C26_Witness ==
    /\ pc = "END"
    /\ stages_run = PipelineOrder
    /\ result.decision = "DEPENDENT"
    /\ llm_decision = "REMOVE"

(***************************************************************************)
(* Claims about the occurrence selected (SpecRemove).                      *)
(***************************************************************************)
\* the text neither declares nor defines the target: its name occurs only
\* in calls and inside longer identifiers
OnlyUses ==
    /\ Count(frags, Uses) >= 1
    /\ Count(frags, Definitions \cup {Proto, Open}) = 0

\* C27: a successful removal selected a definition of the function named
\* exactly the target, never a call inside another function's body and never
\* the tail of a longer identifier: on a text that holds no definition of
\* the target nothing is removed.
C27_OnlyDefinitionsSelected ==
    (Returned /\ OnlyUses) => (~ret.removed /\ ret.new_text = src_text)

(***************************************************************************)
(* Claims about what a removal leaves of its input (SpecRemove).           *)
(***************************************************************************)
\* t is s with one contiguous span deleted
OneSpanDeleted(s, t) ==
    \E a \in 0..Len(s), b \in 0..Len(s) :
        a <= b /\ t = Slice(s, 0, a) \o Slice(s, b, Len(s))

\* C28: on success the returned text is src_text with one contiguous span
\* deleted, every character outside it kept, CRLF line endings included, and
\* the number of removed characters reported is len(src_text) - len(new_text);
\* on failure the returned text is src_text.
C28_OneSpanOfInputDeleted ==
    Returned =>
        IF ret.removed
        THEN /\ OneSpanDeleted(src_text, ret.new_text)
             /\ ret.count = Len(src_text) - Len(ret.new_text)
        ELSE ret.new_text = src_text
(***************************************************************************)
(* Claims about the UI flow (SpecUI).                                      *)
(***************************************************************************)
UiNames == {"f", "g"}

\* this step stores a removal of t that was not stored before
Removes(t) ==
    /\ Has(session_state', "removed_func")
    /\ session_state'["removed_func"] = t
    /\ ~(Has(session_state, "removed_func") /\ session_state["removed_func"] = t)

\* the stored analysis was made for t and approves its removal
ApprovedFor(t) ==
    /\ Has(session_state, "last_agent_result")
    /\ session_state["last_agent_result"].target = t
    /\ session_state["static_decision"] = "SAFE_TO_REMOVE"
    /\ session_state["llm_decision"] = "REMOVE"

\* C29: a function is removed only if the force override is checked or the
\* stored analysis that enables the confirm button was made for that same
\* function and says SAFE_TO_REMOVE and REMOVE.
C29_RemovalNeedsOwnApproval ==
    [][\A t \in UiNames : Removes(t) => (widgets.force_remove \/ ApprovedFor(t))]_vars

RemovalStored ==
    /\ Has(session_state, "updated_src")
    /\ Has(session_state, "orig_src")
    /\ Has(session_state, "removed_func")

RemovalOfCachedSource ==
    RemovalStored =>
        /\ session_state["orig_src"] = session_state["__src_text__"]
        /\ session_state["updated_src"] =
               Str(remove_function_from_c_source(session_state["orig_src"].s,
                                                 session_state["removed_func"]).new_text)

DifferentSourceUploaded ==
    /\ UploadSource
    /\ widgets'.src_file # NoFile
    /\ get_file_hash(widgets'.src_file.content) # session_state["__src_hash__"]

\* C30: a stored removal result is the removal of removed_func from the
\* cached source text; an upload of a source with another hash and a press
\* of Analyze clear the stored removal result, and the upload clears the
\* stored analysis result too.
C30_RemovalResultConsistent ==
    /\ []RemovalOfCachedSource
    /\ [][DifferentSourceUploaded =>
              DOMAIN session_state' \cap (RemovalKeys \cup AnalysisKeys) = {}]_vars
    /\ [][ClickAnalyze => DOMAIN session_state' \cap RemovalKeys = {}]_vars

\* a removal of g is stored after f had been analysed
C30_Witness ==
    /\ RemovalStored
    /\ session_state["removed_func"] = "g"
    /\ Has(session_state, "last_agent_result")

====
